---- MODULE Spec2Model ----
(***************************************************************************)
(* A model of src/src/server.rs: the accept loop of Server::run, the jobs  *)
(* it hands to the thread pool (one per accepted connection, looping over  *)
(* Client::handle), the registry active_clients behind its Mutex, and      *)
(* Server::stop with notify_clients_of_shutdown.                           *)
(*                                                                         *)
(* Threads: the thread that calls run() (rpc), one pool job per accepted   *)
(* connection (wpc), and the threads that call stop() (spc).  The peers    *)
(* are the environment: they connect, send one payload at a time, close,   *)
(* or reset their connection.                                              *)
(*                                                                         *)
(* Results that the source unwraps are modelled with both outcomes where   *)
(* the peer decides the outcome (a write or a peer_addr() on a connection  *)
(* the peer has reset); failures that only resource exhaustion produces    *)
(* (try_clone, local_addr, set_nonblocking) are taken to succeed.          *)
(***************************************************************************)
EXTENDS Integers, Sequences, FiniteSets, TLC

\* ------------------------------------------------------------------ bounds
MaxConns == 2      \* connections the peers open over the server's lifetime
MaxStops == 2      \* threads that call stop()
MaxReqs == 1       \* payloads a peer sends on one connection
MaxRuns == 2       \* calls of run()
MaxLoad == 4       \* connections opened plus calls of stop() and of run()
MaxSeq == 2        \* requests a peer sends on one connection while served
MaxAsks == 2       \* requests the peers send in all while served

\* ThreadPool::new(15)
ThreadPoolSize == 15

Conns == 1..MaxConns
Stoppers == 1..MaxStops

\* ------------------------------------------------------------- i32 values
I32Max == 2147483647
I32Min == -I32Max - 1

\* `a + b` leaves the range of i32.
OverflowsI32(a, b) ==
    \/ a >= 0 /\ b >= 0 /\ a > I32Max - b
    \/ a < 0 /\ b < 0 /\ a < I32Min - b

\* An add handler that returns its first operand.
AddFirstOperand(a, b) == a

\* The two's-complement sum of two i32 values (what `a + b` yields in a
\* release build), computed without leaving the range of i32.
WrapAddI32(a, b) ==
    IF a >= 0 /\ b >= 0 /\ a > I32Max - b
      THEN I32Min + (a - (I32Max - b) - 1)
      ELSE IF a < 0 /\ b < 0 /\ a < I32Min - b
             THEN I32Max - ((I32Min - b) - a - 1)
             ELSE a + b

\* ---------------------------------------------------------------- messages
\* ClientMessage values: message is Some(EchoMessage), Some(AddRequest) or None.
EchoReq(s) == [variant |-> "EchoMessage", content |-> s]
AddReq(a, b) == [variant |-> "AddRequest", a |-> a, b |-> b]
NoneReq == [variant |-> "None"]

\* ServerMessage values.
EchoResp(s) == [variant |-> "EchoMessage", content |-> s]
AddResp(r) == [variant |-> "AddResponse", result |-> r]
ErrorResp(s) == [variant |-> "ErrorMessage", content |-> s]

BadRequestText == "Bad Request!"
ShutdownText == "Server is shutting down."

\* The codec boundary: bytes on the wire are either the encoding of a message
\* or bytes that decode to nothing.
Encode(m) == [bytes |-> "encoded", msg |-> m]
Garbage == [bytes |-> "garbage"]
DecodeOk(b) == b.bytes = "encoded"
Decode(b) == b.msg

\* The payloads the peers send.
Payloads ==
    { Encode(EchoReq("hello")), Garbage }

\* The encoding of a message that is longer than the buffer handle() reads
\* into (`[0; 512]`): one read returns the first 512 bytes, which end in the
\* middle of a field, and leaves the rest in the socket.
Oversize(m) == [bytes |-> "oversize", msg |-> m]
Truncated == [bytes |-> "truncated"]
Rest == [bytes |-> "rest"]

\* What one stream.read(&mut buffer) returns of the payload at the head of
\* the socket, and what it leaves of it.
FirstRead(b) == IF b.bytes = "oversize" THEN Truncated ELSE b
AfterFirstRead(b) == IF b.bytes = "oversize" THEN << Rest >> ELSE << >>

\* The contents of the echo requests and the operands of the add requests
\* the peers send while they are served.
EchoContents == { "hello", "" }
AddPairs == { << 10, 20 >>, << I32Max, I32Min >>, << I32Max, 1 >> }

Requests ==
    { Encode(EchoReq(s)) : s \in EchoContents }
        \cup { Encode(AddReq(ab[1], ab[2])) : ab \in AddPairs }
        \cup { Encode(NoneReq), Garbage, Oversize(EchoReq("long")) }

VARIABLES
    is_running,      \* Server.is_running
    active_clients,  \* Server.active_clients: the Vec of registered streams
    lock,            \* holder of the Mutex around active_clients
    poisoned,        \* the Mutex is poisoned (a thread panicked holding it)
    rpc,             \* position of the thread that calls run()
    rconn,           \* the connection run() has accepted and not yet dispatched
    runs,            \* calls of run() so far
    backlog,         \* connections waiting in the listener's accept queue
    sock,            \* per connection: "none", "open", "closed", "reset", "gone"
    inbox,           \* per connection: payloads sent and not yet read
    sent,            \* per connection: the payloads the peer has sent, in order
    outbox,          \* per connection: payloads delivered to the peer
    wpc,             \* per connection: position of its pool job
    wresp,           \* per connection: the response its job is writing
    eof_seen,        \* per connection: its job has read zero bytes
    removals,        \* per connection: completed removals by its job
    spc,             \* per stop() thread: position
    sidx,            \* per stop() thread: index of the broadcast loop
    slog,            \* per stop() thread: the statements of stop() it has done
    saw              \* per stop() thread, from its call until it takes the
                     \* lock: the connections that were mid-loop at the call

vars ==
    << is_running, active_clients, lock, poisoned, rpc, rconn, runs, backlog,
       sock, inbox, sent, outbox, wpc, wresp, eof_seen, removals, spc, sidx, slog,
       saw >>

serverVars == << is_running, active_clients, lock, poisoned >>
runVars == << rpc, rconn, runs >>
peerVars == << backlog, sock, inbox, sent, outbox >>
workerVars == << wpc, wresp, eof_seen, removals >>
stopVars == << spc, sidx, slog, saw >>

\* No stream in hand / the Mutex is not held.
NoConn == << >>
Free == << >>
NoResp == [variant |-> "none"]

\* A peer address that names the host only: the same for every connection.
PeerAddrHostOnly(c) == "localhost"

\* The peer address of a connection: distinct connections have distinct
\* peer addresses (the listener's 4-tuples are unique).
PeerAddr(c) == c

\* What the environment has asked of the server so far: the connections
\* opened and the calls of stop() and run().
Load ==
    Cardinality({c \in Conns : sock[c] # "none"})
        + Cardinality({t \in Stoppers : spc[t] # "idle"}) + runs

\* Server::new
Init ==
    /\ is_running = FALSE
    /\ active_clients = << >>
    /\ lock = Free
    /\ poisoned = FALSE
    /\ rpc = "created"
    /\ rconn = NoConn
    /\ runs = 0
    /\ backlog = << >>
    /\ sock = [c \in Conns |-> "none"]
    /\ inbox = [c \in Conns |-> << >>]
    /\ sent = [c \in Conns |-> << >>]
    /\ outbox = [c \in Conns |-> << >>]
    /\ wpc = [c \in Conns |-> "none"]
    /\ wresp = [c \in Conns |-> NoResp]
    /\ eof_seen = [c \in Conns |-> FALSE]
    /\ removals = [c \in Conns |-> 0]
    /\ spc = [t \in Stoppers |-> "idle"]
    /\ sidx = [t \in Stoppers |-> 0]
    /\ slog = [t \in Stoppers |-> << >>]
    /\ saw = [t \in Stoppers |-> {}]

\* ------------------------------------------------------------------- peers
\* The server still holds a socket of connection c: it waits in the accept
\* queue, run() has it in hand, it is registered, or its job is not over.
\* Once the last handle is dropped the connection is closed, and what the
\* peer does with it no longer reaches the server.
InRegistry(c) == \E i \in 1..Len(active_clients) : active_clients[i] = c

ServerHolds(c) ==
    \/ \E i \in 1..Len(backlog) : backlog[i] = c
    \/ rconn = << c >>
    \/ InRegistry(c)
    \/ wpc[c] \in {"queued", "check", "read", "write", "remove"}

\* A peer connects: the connection waits in the listener's accept queue.
PeerConnect(c) ==
    /\ sock[c] = "none"
    /\ \A d \in Conns : d < c => sock[d] # "none"
    /\ Load < MaxLoad
    /\ sock' = [sock EXCEPT ![c] = "open"]
    /\ backlog' = Append(backlog, c)
    /\ UNCHANGED << inbox, sent, outbox >>
    /\ UNCHANGED << serverVars, runVars, workerVars, stopVars >>

\* A peer sends one payload (it waits until the previous one was read: one
\* read is one message).
PeerSend(c, p) ==
    /\ sock[c] = "open"
    /\ ServerHolds(c)
    /\ Len(sent[c]) < MaxReqs
    /\ inbox[c] = << >>
    /\ inbox' = [inbox EXCEPT ![c] = << p >>]
    /\ sent' = [sent EXCEPT ![c] = Append(@, p)]
    /\ UNCHANGED << backlog, sock, outbox >>
    /\ UNCHANGED << serverVars, runVars, workerVars, stopVars >>

\* The requests the peers have sent in all.
Asked == Cardinality({ci \in Conns \X (1..MaxSeq) : ci[2] <= Len(sent[ci[1]])})

\* A peer that is being served sends its next request (it waits until the
\* previous one was read).
PeerRequest(c, p) ==
    /\ sock[c] = "open"
    /\ ServerHolds(c)
    /\ Len(sent[c]) < MaxSeq
    /\ Asked < MaxAsks
    /\ inbox[c] = << >>
    /\ inbox' = [inbox EXCEPT ![c] = << p >>]
    /\ sent' = [sent EXCEPT ![c] = Append(@, p)]
    /\ UNCHANGED << backlog, sock, outbox >>
    /\ UNCHANGED << serverVars, runVars, workerVars, stopVars >>

\* A peer closes its connection cleanly.
PeerClose(c) ==
    /\ sock[c] = "open"
    /\ ServerHolds(c)
    /\ sock' = [sock EXCEPT ![c] = "closed"]
    /\ UNCHANGED << backlog, inbox, sent, outbox >>
    /\ UNCHANGED << serverVars, runVars, workerVars, stopVars >>

\* The connection is reset by the peer (an abortive close, or the answer to
\* data that arrives after the close).
PeerReset(c) ==
    /\ sock[c] \in {"open", "closed"}
    /\ ServerHolds(c)
    /\ sock' = [sock EXCEPT ![c] = "reset"]
    /\ UNCHANGED << backlog, inbox, sent, outbox >>
    /\ UNCHANGED << serverVars, runVars, workerVars, stopVars >>

\* The sockets after the server has dropped a handle of connection c, reg
\* being the registry then: with no handle left the connection is closed.
DropHandle(c, reg) ==
    IF \E i \in 1..Len(reg) : reg[i] = c THEN sock ELSE [sock EXCEPT ![c] = "gone"]

\* A write that reaches the peer ahead of what was written before it.
DeliveredNewestFirst(c, p) ==
    IF sock[c] = "open" THEN [outbox EXCEPT ![c] = << p >> \o @] ELSE outbox

\* A write that goes out on the stream of the next connection.
DeliveredCrossed(c, p) ==
    LET d == (c % MaxConns) + 1 IN
    IF sock[d] = "open" THEN [outbox EXCEPT ![d] = Append(@, p)] ELSE outbox

\* What a completed write_all of payload p leaves at the peer of connection c.
Delivered(c, p) ==
    IF sock[c] = "open" THEN [outbox EXCEPT ![c] = Append(@, p)] ELSE outbox

\* write_all fails on a connection the peer has reset.
WriteFails(c) == sock[c] = "reset"

\* ------------------------------------------------------------ Server::run
\* is_running.store(true); set_nonblocking(true)
RunStart ==
    /\ rpc \in {"created", "returned"}
    /\ runs < MaxRuns
    /\ Load < MaxLoad
    /\ is_running' = TRUE
    /\ rpc' = "loop"
    /\ runs' = runs + 1
    /\ UNCHANGED << active_clients, lock, poisoned, rconn >>
    /\ UNCHANGED << peerVars, workerVars, stopVars >>

\* while self.is_running.load(..)
RunCheck ==
    /\ rpc = "loop"
    /\ rpc' = IF is_running THEN "accept" ELSE "returned"
    /\ UNCHANGED << serverVars, rconn, runs, peerVars, workerVars, stopVars >>

\* listener.accept() => Ok((stream, addr))
RunAccept ==
    /\ rpc = "accept"
    /\ backlog # << >>
    /\ rconn' = << Head(backlog) >>
    /\ backlog' = Tail(backlog)
    /\ rpc' = "register"
    /\ UNCHANGED << serverVars, runs, sock, inbox, sent, outbox, workerVars, stopVars >>

\* listener.accept() => Err(WouldBlock): sleep 100 ms
RunWouldBlock ==
    /\ rpc = "accept"
    /\ backlog = << >>
    /\ rpc' = "loop"
    /\ UNCHANGED << serverVars, rconn, runs, peerVars, workerVars, stopVars >>

\* listener.accept() => Err(e): logged, the loop continues
RunAcceptErr ==
    /\ rpc = "accept"
    /\ rpc' = "loop"
    /\ UNCHANGED << serverVars, rconn, runs, peerVars, workerVars, stopVars >>

\* active_clients.lock().unwrap().push(stream.try_clone().unwrap())
RunRegister ==
    /\ rpc = "register"
    /\ lock = Free
    /\ IF poisoned
         THEN /\ rpc' = "panicked"
              /\ rconn' = NoConn
              /\ sock' = DropHandle(rconn[1], active_clients)
              /\ UNCHANGED active_clients
         ELSE /\ active_clients' = Append(active_clients, rconn[1])
              /\ rpc' = "execute"
              /\ UNCHANGED << rconn, sock >>
    /\ UNCHANGED << is_running, lock, poisoned, runs, backlog, inbox, sent, outbox >>
    /\ UNCHANGED << workerVars, stopVars >>

\* thread_pool.execute(move || { ... })
RunExecute ==
    /\ rpc = "execute"
    /\ wpc' = [wpc EXCEPT ![rconn[1]] = "queued"]
    /\ rconn' = NoConn
    /\ rpc' = "loop"
    /\ UNCHANGED << serverVars, runs, peerVars, wresp, eof_seen, removals, stopVars >>

Acceptor ==
    \/ RunStart
    \/ RunCheck
    \/ RunAccept
    \/ RunWouldBlock
    \/ RunAcceptErr
    \/ RunRegister
    \/ RunExecute

\* ---------------------------------------------------------- Client::handle
\* `a + b` on i32 overflows: a debug build panics, a release build wraps.
AddOverflows(b) ==
    /\ DecodeOk(b)
    /\ Decode(b).variant = "AddRequest"
    /\ OverflowsI32(Decode(b).a, Decode(b).b)

\* A handler that answers every echo request with the same content.
HandleResponseEchoFixed(b) ==
    IF DecodeOk(b)
      THEN LET m == Decode(b) IN
           CASE m.variant = "EchoMessage" -> EchoResp("hello")
             [] m.variant = "AddRequest" -> AddResp(WrapAddI32(m.a, m.b))
             [] OTHER -> ErrorResp(BadRequestText)
      ELSE ErrorResp(BadRequestText)

\* The response handle() sends for the bytes it has read: the decode and the
\* match on the variant, then handle_echo_request, handle_add_request or
\* handle_bad_request.
HandleResponse(b) ==
    IF DecodeOk(b)
      THEN LET m == Decode(b) IN
           CASE m.variant = "EchoMessage" -> EchoResp(m.content)
             [] m.variant = "AddRequest" -> AddResp(WrapAddI32(m.a, m.b))
             [] OTHER -> ErrorResp(BadRequestText)
      ELSE ErrorResp(BadRequestText)

\* Where the job goes after handle() has returned Ok(()) on a read of zero
\* bytes: back to the loop guard.
AfterZeroRead == "check"

\* Where the job goes after handle() has returned Err(e): `break`.
AfterReadErr == "remove"

\* -------------------------------------------------------- the pool's jobs
JobLive == {"queued", "check", "read", "write", "remove"}
JobRunning == {"check", "read", "write", "remove"}
\* A job that panicked: in handle_add_request (`a + b`), in send_response
\* (expect), at active_clients.lock().unwrap(), at peer_addr().unwrap().
Panicked == {"panic_add", "panic_write", "panic_lock", "panic_addr"}
JobEnded == {"done"} \cup Panicked
InLoop == {"check", "read", "write"}

\* A pool thread takes the job from the queue (at most ThreadPoolSize run).
WorkerStart(c) ==
    /\ wpc[c] = "queued"
    /\ Cardinality({d \in Conns : wpc[d] \in JobRunning}) < ThreadPoolSize
    /\ wpc' = [wpc EXCEPT ![c] = "check"]
    /\ UNCHANGED << serverVars, runVars, peerVars, wresp, eof_seen, removals, stopVars >>

\* while is_running.load(..)
WorkerCheck(c) ==
    /\ wpc[c] = "check"
    /\ wpc' = [wpc EXCEPT ![c] = IF is_running THEN "read" ELSE "remove"]
    /\ UNCHANGED << serverVars, runVars, peerVars, wresp, eof_seen, removals, stopVars >>

\* stream.read(..)? fails: handle() returns Err, the loop breaks.
WorkerReadErr(c) ==
    /\ wpc[c] = "read"
    /\ sock[c] = "reset"
    /\ wpc' = [wpc EXCEPT ![c] = AfterReadErr]
    /\ UNCHANGED << serverVars, runVars, peerVars, wresp, eof_seen, removals, stopVars >>

\* stream.read(..) returns 0: "Client disconnected.", handle() returns Ok(()).
WorkerReadEof(c) ==
    /\ wpc[c] = "read"
    /\ sock[c] = "closed"
    /\ inbox[c] = << >>
    /\ eof_seen' = [eof_seen EXCEPT ![c] = TRUE]
    /\ wpc' = [wpc EXCEPT ![c] = AfterZeroRead]
    /\ UNCHANGED << serverVars, runVars, peerVars, wresp, removals, stopVars >>

\* stream.read(..) returns the bytes it finds, at most a buffer of them;
\* handle() decodes them, builds the response and enters send_response.
WorkerReadRequest(c) ==
    /\ wpc[c] = "read"
    /\ sock[c] \in {"open", "closed"}
    /\ inbox[c] # << >>
    /\ inbox' = [inbox EXCEPT ![c] = AfterFirstRead(Head(@)) \o Tail(@)]
    /\ \/ /\ wresp' = [wresp EXCEPT ![c] = Encode(HandleResponse(FirstRead(Head(inbox[c]))))]
          /\ wpc' = [wpc EXCEPT ![c] = "write"]
       \/ /\ AddOverflows(FirstRead(Head(inbox[c])))
          /\ wpc' = [wpc EXCEPT ![c] = "panic_add"]
          /\ UNCHANGED wresp
    /\ UNCHANGED << serverVars, runVars, backlog, sock, sent, outbox, eof_seen, removals, stopVars >>

\* A job that leaves its loop after it has answered a bad request.
WorkerWriteBreakOnError(c) ==
    /\ wpc[c] = "write"
    /\ IF WriteFails(c)
         THEN /\ wpc' = [wpc EXCEPT ![c] = "panic_write"]
              /\ UNCHANGED outbox
         ELSE /\ wpc' = [wpc EXCEPT ![c] =
                            IF wresp[c] = Encode(ErrorResp(BadRequestText))
                              THEN "remove" ELSE "check"]
              /\ outbox' = Delivered(c, wresp[c])
    /\ wresp' = [wresp EXCEPT ![c] = NoResp]
    /\ UNCHANGED << serverVars, runVars, backlog, sock, inbox, sent, eof_seen, removals, stopVars >>

\* send_response: write_all(..).expect(..), flush().expect(..)
WorkerWrite(c) ==
    /\ wpc[c] = "write"
    /\ IF WriteFails(c)
         THEN /\ wpc' = [wpc EXCEPT ![c] = "panic_write"]
              /\ UNCHANGED outbox
         ELSE /\ wpc' = [wpc EXCEPT ![c] = "check"]
              /\ outbox' = Delivered(c, wresp[c])
    /\ wresp' = [wresp EXCEPT ![c] = NoResp]
    /\ UNCHANGED << serverVars, runVars, backlog, sock, inbox, sent, eof_seen, removals, stopVars >>

\* retain(|s| s.peer_addr().unwrap() != addr) when every peer_addr() is Ok.
Retain(reg, addr) == SelectSeq(reg, LAMBDA s : PeerAddr(s) # addr)

\* The Vec after retain's closure has panicked at entry i: the entries before
\* i are filtered, entry i and the ones after it are kept.
RetainPanicked(reg, addr, i) ==
    Retain(SubSeq(reg, 1, i - 1), addr) \o SubSeq(reg, i, Len(reg))

\* peer_addr() of a registered stream can fail once the peer has reset the
\* connection (the socket is no longer connected).
PeerAddrCanFail(s) == sock[s] = "reset"

\* active_clients.lock().unwrap().retain(..), every peer_addr() being Ok; on
\* a poisoned Mutex the unwrap panics.
WorkerRemove(c) ==
    /\ wpc[c] = "remove"
    /\ lock = Free
    /\ IF poisoned
         THEN /\ wpc' = [wpc EXCEPT ![c] = "panic_lock"]
              /\ UNCHANGED << active_clients, removals >>
         ELSE /\ active_clients' = Retain(active_clients, PeerAddr(c))
              /\ removals' = [removals EXCEPT ![c] = @ + 1]
              /\ wpc' = [wpc EXCEPT ![c] = "done"]
    /\ sock' = DropHandle(c, active_clients')
    /\ UNCHANGED << is_running, lock, poisoned, runVars, backlog, inbox, sent, outbox >>
    /\ UNCHANGED << wresp, eof_seen, stopVars >>

\* The same, with peer_addr().unwrap() panicking at entry i: the job dies
\* holding the guard, which poisons the Mutex.
WorkerRemovePanic(c, i) ==
    /\ wpc[c] = "remove"
    /\ lock = Free
    /\ ~poisoned
    /\ i \in 1..Len(active_clients)
    /\ PeerAddrCanFail(active_clients[i])
    /\ active_clients' = RetainPanicked(active_clients, PeerAddr(c), i)
    /\ poisoned' = TRUE
    /\ wpc' = [wpc EXCEPT ![c] = "panic_addr"]
    /\ sock' = DropHandle(c, active_clients')
    /\ UNCHANGED << is_running, lock, runVars, backlog, inbox, sent, outbox >>
    /\ UNCHANGED << wresp, eof_seen, removals, stopVars >>

Worker(c) ==
    \/ WorkerStart(c)
    \/ WorkerCheck(c)
    \/ WorkerReadErr(c)
    \/ WorkerReadEof(c)
    \/ WorkerReadRequest(c)
    \/ WorkerWrite(c)
    \/ WorkerRemove(c)
    \/ \E i \in 1..MaxConns : WorkerRemovePanic(c, i)

\* ----------------------------------------------------------- Server::stop
\* The steps of stop() a thread logs in slog.
Log(t, e) == [slog EXCEPT ![t] = Append(@, e)]

\* stop() with the flag set before the clients are notified.
StopBodyFlipFirst == << "flip", "notify", "join" >>

\* The statements of stop()'s running branch, in the order of the source:
\* notify_clients_of_shutdown(), is_running.store(false), thread_pool.join().
StopBody == << "notify", "flip", "join" >>

\* The position at which a statement of the body starts, and the position
\* after it: the start of the statement that follows it, or the end of the
\* body.
Entry(stmt) == IF stmt = "notify" THEN "lock" ELSE stmt

After(stmt) ==
    LET i == CHOOSE k \in 1..Len(StopBody) : StopBody[k] = stmt IN
    IF i < Len(StopBody) THEN Entry(StopBody[i + 1]) ELSE "end"

\* A connection is mid-loop: registered, its job inside the service loop.
MidLoop(c) == InRegistry(c) /\ wpc[c] \in InLoop

\* stop() without the test of the flag: the running branch is always taken.
StopCallNoCheck(t) ==
    /\ spc[t] = "idle"
    /\ \A u \in Stoppers : u < t => spc[u] # "idle"
    /\ Load < MaxLoad
    /\ spc' = [spc EXCEPT ![t] = Entry(StopBody[1])]
    /\ saw' = [saw EXCEPT ![t] = {c \in Conns : MidLoop(c)}]
    /\ UNCHANGED << serverVars, runVars, peerVars, workerVars, sidx, slog >>

\* if self.is_running.load(..) { .. } else { warn!(..) }
StopCall(t) ==
    /\ spc[t] = "idle"
    /\ \A u \in Stoppers : u < t => spc[u] # "idle"
    /\ Load < MaxLoad
    /\ spc' = [spc EXCEPT ![t] = IF is_running THEN Entry(StopBody[1]) ELSE "noop"]
    /\ saw' = [saw EXCEPT ![t] = IF is_running THEN {c \in Conns : MidLoop(c)} ELSE {}]
    /\ UNCHANGED << serverVars, runVars, peerVars, workerVars, sidx, slog >>

\* notify_clients_of_shutdown: let clients = active_clients.lock().unwrap()
StopLock(t) ==
    /\ spc[t] = "lock"
    /\ lock = Free
    /\ IF poisoned
         THEN /\ spc' = [spc EXCEPT ![t] = "panic_lock"]
              /\ UNCHANGED << lock, sidx >>
         ELSE /\ spc' = [spc EXCEPT ![t] = "notify"]
              /\ lock' = << t >>
              /\ sidx' = [sidx EXCEPT ![t] = 1]
    /\ saw' = [saw EXCEPT ![t] = {}]
    /\ UNCHANGED << is_running, active_clients, poisoned, runVars, peerVars, workerVars >>
    /\ UNCHANGED slog

\* for mut client in clients.iter(): client.write_all(&payload) begins
StopWriteBegin(t) ==
    /\ spc[t] = "notify"
    /\ sidx[t] <= Len(active_clients)
    /\ spc' = [spc EXCEPT ![t] = "writing"]
    /\ UNCHANGED << serverVars, runVars, peerVars, workerVars, sidx, slog, saw >>

\* The broadcast giving up at the first write that fails: the loop is left
\* with the remaining entries unwritten.
StopWriteEndAbort(t) ==
    /\ spc[t] = "writing"
    /\ IF WriteFails(active_clients[sidx[t]])
         THEN /\ outbox' = outbox
              /\ sidx' = [sidx EXCEPT ![t] = Len(active_clients) + 1]
         ELSE /\ outbox' = Delivered(active_clients[sidx[t]], Encode(ErrorResp(ShutdownText)))
              /\ sidx' = [sidx EXCEPT ![t] = @ + 1]
    /\ spc' = [spc EXCEPT ![t] = "notify"]
    /\ UNCHANGED << serverVars, runVars, backlog, sock, inbox, sent, workerVars, slog, saw >>

\* client.write_all(&payload) ends; an Err is logged with warn!
StopWriteEnd(t) ==
    /\ spc[t] = "writing"
    /\ outbox' = IF WriteFails(active_clients[sidx[t]])
                   THEN outbox
                   ELSE Delivered(active_clients[sidx[t]], Encode(ErrorResp(ShutdownText)))
    /\ sidx' = [sidx EXCEPT ![t] = @ + 1]
    /\ spc' = [spc EXCEPT ![t] = "notify"]
    /\ UNCHANGED << serverVars, runVars, backlog, sock, inbox, sent, workerVars, slog, saw >>

\* notify_clients_of_shutdown returning with the guard kept alive.
StopUnlockKeepGuard(t) ==
    /\ spc[t] = "notify"
    /\ sidx[t] > Len(active_clients)
    /\ spc' = [spc EXCEPT ![t] = After("notify")]
    /\ slog' = Log(t, "notify")
    /\ UNCHANGED << serverVars, runVars, peerVars, workerVars >>
    /\ UNCHANGED << sidx, saw >>

\* The loop is over: notify_clients_of_shutdown returns, the guard is dropped.
StopUnlock(t) ==
    /\ spc[t] = "notify"
    /\ sidx[t] > Len(active_clients)
    /\ lock' = Free
    /\ spc' = [spc EXCEPT ![t] = After("notify")]
    /\ slog' = Log(t, "notify")
    /\ UNCHANGED << is_running, active_clients, poisoned, runVars, peerVars, workerVars >>
    /\ UNCHANGED << sidx, saw >>

\* self.is_running.store(false, ..)
StopFlip(t) ==
    /\ spc[t] = "flip"
    /\ is_running' = FALSE
    /\ spc' = [spc EXCEPT ![t] = After("flip")]
    /\ slog' = Log(t, "flip")
    /\ UNCHANGED << active_clients, lock, poisoned, runVars, peerVars, workerVars >>
    /\ UNCHANGED << sidx, saw >>

\* ThreadPool::join: waits while a job is queued or running.
HasWork == \E c \in Conns : wpc[c] \in JobLive

\* self.thread_pool.join() returns
StopJoin(t) ==
    /\ spc[t] = "join"
    /\ ~HasWork
    /\ spc' = [spc EXCEPT ![t] = After("join")]
    /\ slog' = Log(t, "join")
    /\ UNCHANGED << serverVars, runVars, peerVars, workerVars, sidx, saw >>

\* info!("Shutdown signal sent."); stop() returns
StopReturn(t) ==
    /\ spc[t] = "end"
    /\ spc' = [spc EXCEPT ![t] = "returned"]
    /\ UNCHANGED << serverVars, runVars, peerVars, workerVars, sidx, slog, saw >>

Stopper(t) ==
    \/ StopCall(t)
    \/ StopLock(t)
    \/ StopWriteBegin(t)
    \/ StopWriteEnd(t)
    \/ StopUnlock(t)
    \/ StopFlip(t)
    \/ StopJoin(t)
    \/ StopReturn(t)

Peer(c) ==
    \/ PeerConnect(c)
    \/ \E p \in Payloads : PeerSend(c, p)
    \/ PeerClose(c)
    \/ PeerReset(c)

Next ==
    \/ Acceptor
    \/ \E c \in Conns : Worker(c)
    \/ \E t \in Stoppers : Stopper(t)
    \/ \E c \in Conns : Peer(c)

Spec == Init /\ [][Next]_vars

\* The server while it runs and is never stopped: run(), the jobs, and
\* peers that send sequences of requests of every kind.
Served(c) ==
    \/ PeerConnect(c)
    \/ \E p \in Requests : PeerRequest(c, p)
    \/ PeerClose(c)
    \/ PeerReset(c)

ServeNext ==
    \/ Acceptor
    \/ \E c \in Conns : Worker(c)
    \/ \E c \in Conns : Served(c)

ServeSpec == Init /\ [][ServeNext]_vars

\* -------------------------------------------------------------- properties
ShutdownNote == Encode(ErrorResp(ShutdownText))

Received(c, p) == \E i \in 1..Len(outbox[c]) : outbox[c][i] = p

IsPrefix(a, b) == Len(a) <= Len(b) /\ SubSeq(b, 1, Len(a)) = a

\* C1: once stop() is invoked on the running server, a connection that is
\* mid-loop receives a response or the shutdown notification.  Stated on the
\* step that ends it for good: a connection that was mid-loop when a stop()
\* call found the server running is not closed by its job, its peer still
\* being open, before that call has broadcast, unless the peer has received
\* something.
C1_NotifiedBeforeClose ==
    [][\A c \in Conns :
         (/\ \E t \in Stoppers : spc[t] = "lock" /\ c \in saw[t]
          /\ wpc[c] = "remove"
          /\ sock[c] = "open"
          /\ sock'[c] = "gone")
            => outbox[c] # << >>]_vars

\* C2: a job whose loop ended with a write failure has removed its
\* connection from the registry exactly once when it ends.
C2_WriteFailureDeregisters ==
    \A c \in Conns : wpc[c] = "panic_write" => removals[c] = 1

\* C3: after handle() has read zero bytes the job runs no further handle()
\* iteration on that connection.
C3_ZeroReadEndsLoop ==
    \A c \in Conns : eof_seen[c] => wpc[c] \notin {"read", "write"}

\* C4: the registry holds no entry for a connection whose job has ended, and
\* the connection of every live job has an entry.
C4_RegistryIsLiveSet ==
    \A c \in Conns :
        /\ wpc[c] \in JobEnded => ~InRegistry(c)
        /\ wpc[c] \in JobLive => InRegistry(c)

\* C5: when stop() returns from its running branch, no job is queued or
\* running.
C5_DrainedOnReturn ==
    [][\A t \in Stoppers :
         (spc[t] = "end" /\ spc'[t] = "returned") => (~HasWork)']_vars

\* C6: after stop() has been called, the first run() leaves its loop and
\* returns.  With every stop() call over and run() in its first call, run()
\* has returned or the flag that ends its loop is false.
C6_RunReturns ==
    (runs = 1 /\ \A t \in Stoppers : spc[t] \in {"returned", "noop", "panic_lock"})
        => (rpc = "returned" \/ (rpc # "panicked" /\ ~is_running))

\* C7: within one stop() call the broadcast is complete before the flag is
\* set to false, and the flag is set before the call waits for the pool.
C7_StopOrder ==
    \A t \in Stoppers :
        /\ IsPrefix(slog[t], << "notify", "flip", "join" >>)
        /\ spc[t] \in {"lock", "notify", "writing"} => slog[t] = << >>
        /\ spc[t] = "flip" => slog[t] = << "notify" >> /\ lock # << t >>
        /\ spc[t] = "join" => slog[t] = << "notify", "flip" >>

C7_Witness ==
    \E t \in Stoppers :
        /\ slog[t] = << "notify", "flip", "join" >>
        /\ \E c \in Conns : Received(c, ShutdownNote)

\* C8: stop() called while the flag is false returns at once: it writes to
\* no connection, changes neither the flag nor the registry, takes no lock
\* and does not wait for the pool.
C8_StopNoOp ==
    [][\A t \in Stoppers :
         /\ (spc[t] = "idle" /\ spc'[t] # "idle" /\ ~is_running)
               => /\ spc'[t] = "noop"
                  /\ UNCHANGED << serverVars, runVars, peerVars, workerVars, sidx, slog >>
                  /\ saw'[t] = {}
         /\ spc[t] = "noop" => spc'[t] = "noop"]_vars

C8_Witness ==
    \E t, u \in Stoppers :
        /\ spc[t] = "noop"
        /\ slog[u] = << "notify", "flip", "join" >>
        /\ active_clients # << >>

\* C9: once the flag has gone from true to false it never becomes true again.
C9_OneShot ==
    [][((\E t \in Stoppers : Len(slog[t]) >= 2) /\ ~is_running) => ~is_running']_vars

\* C10: the broadcast and the owning job are never both in the middle of a
\* write to the same connection.
C10_NoWriteRace ==
    \A c \in Conns : \A t \in Stoppers :
        ~(wpc[c] = "write" /\ spc[t] = "writing" /\ active_clients[sidx[t]] = c)

\* The number of shutdown notifications the peer of connection c has received.
Notes(c) == Cardinality({i \in 1..Len(outbox[c]) : outbox[c][i] = ShutdownNote})

\* C11: an I/O failure on one connection ends only that connection: the
\* thread in run(), the threads in stop() and the jobs of connections that
\* had no failure of their own are never brought down.
C11_FailureIsolated ==
    /\ rpc # "panicked"
    /\ \A t \in Stoppers : spc[t] # "panic_lock"
    /\ \A c \in Conns : wpc[c] = "panic_lock" => sock[c] = "reset"

\* C12: once a stop() call has set the flag, joined the pool and returned,
\* and while the flag stays false, nothing more is delivered to any peer.
C12_SilentAfterStop ==
    [][(~is_running /\ \E t \in Stoppers : spc[t] = "returned")
          => outbox' = outbox]_vars

\* C14: a write that fails during the broadcast does not end the broadcast
\* nor the call: when notify_clients_of_shutdown returns, stop() goes on to
\* the store of the flag and every registered connection whose peer is still
\* open has received the notification, whatever failed before it in the Vec.
C14_BroadcastSurvivesFailure ==
    [][\A t \in Stoppers :
         (spc[t] \in {"notify", "writing"} /\ spc'[t] \notin {"notify", "writing"})
            => /\ spc'[t] = "flip"
               /\ \A c \in Conns :
                     (InRegistry(c) /\ sock[c] = "open") => Received(c, ShutdownNote)]_vars

C14_Witness ==
    \E t \in Stoppers :
        /\ spc[t] = "flip"
        /\ Len(active_clients) = 2
        /\ sock[active_clients[1]] = "reset"
        /\ ~Received(active_clients[1], ShutdownNote)
        /\ sock[active_clients[2]] = "open"
        /\ Received(active_clients[2], ShutdownNote)

\* C19: on the step by which stop() sets the flag to false, every registered
\* connection whose peer is open has received the shutdown notification.
C19_AllNotifiedAtFlip ==
    [][\A t \in Stoppers :
         (spc[t] = "flip" /\ spc'[t] # "flip")
            => \A c \in Conns :
                  (InRegistry(c) /\ sock[c] = "open") => Received(c, ShutdownNote)]_vars

\* C20: a peer receives the shutdown notification at most once.
C20_NotifiedAtMostOnce ==
    \A c \in Conns : Notes(c) <= 1

\* ------------------------------------------------- properties of the service
\* What the peer of connection c has received, the shutdown notifications
\* left out.
Replies(c) == SelectSeq(outbox[c], LAMBDA m : m # ShutdownNote)

\* Every request of the sequence is within the wire format: one read takes
\* one whole message.
OneReadEach(reqs) == \A i \in 1..Len(reqs) : reqs[i].bytes # "oversize"

\* No request of the sequence is an add whose sum leaves i32 (the result of
\* which depends on the build).
NoOverflow(reqs) == \A i \in 1..Len(reqs) : ~AddOverflows(reqs[i])

\* The bytes fail to decode, or decode to a message with no variant.
IsBad(b) == ~DecodeOk(b) \/ Decode(b).variant = "None"

BadResp == Encode([variant |-> "ErrorMessage", content |-> "Bad Request!"])

\* The responses the reads of payload b can produce.
AnswersTo(b) ==
    { Encode(HandleResponse(FirstRead(b))) }
        \cup { Encode(HandleResponse(AfterFirstRead(b)[k])) : k \in 1..Len(AfterFirstRead(b)) }

C16_Isolated ==
    \A c \in Conns : \A i \in 1..Len(outbox[c]) :
        \/ outbox[c][i] = ShutdownNote
        \/ \E j \in 1..Len(sent[c]) : outbox[c][i] \in AnswersTo(sent[c][j])

C16_Witness ==
    \E c, d \in Conns :
        /\ c # d
        /\ wpc[c] \in InLoop /\ wpc[d] \in InLoop
        /\ Len(outbox[c]) = 1 /\ Len(outbox[d]) = 1
        /\ outbox[c][1] # outbox[d][1]

\* C17: an echo request with content s, within the wire format, is answered
\* with an echo response with content s.
C17_EchoIdentity ==
    \A c \in Conns :
        OneReadEach(sent[c]) =>
            \A i \in 1..Len(Replies(c)) : \A s \in EchoContents :
                sent[c][i] = Encode(EchoReq(s)) => Replies(c)[i] = Encode(EchoResp(s))

C17_Witness ==
    \E c \in Conns :
        /\ sent[c] = << Encode(EchoReq("")), Encode(EchoReq("hello")) >>
        /\ Replies(c) = << Encode(EchoResp("")), Encode(EchoResp("hello")) >>

\* C18: an add request whose operands' sum is within i32 is answered with
\* an add response that carries the sum.
C18_AddCorrect ==
    \A c \in Conns :
        OneReadEach(sent[c]) =>
            \A i \in 1..Len(Replies(c)) : \A ab \in AddPairs :
                (sent[c][i] = Encode(AddReq(ab[1], ab[2])) /\ ~OverflowsI32(ab[1], ab[2]))
                    => Replies(c)[i] = Encode(AddResp(ab[1] + ab[2]))

C18_Witness ==
    \E c \in Conns :
        /\ sent[c] = << Encode(AddReq(10, 20)), Encode(AddReq(I32Max, I32Min)) >>
        /\ Replies(c) = << Encode(AddResp(30)), Encode(AddResp(-1)) >>

\* ------------------------------------------------ registry and termination
\* C21: a connection is in the registry, and has not been removed, from
\* before its job is queued until the job has left its service loop, and
\* the job has removed it by the time the job is over.
C21_InsertedThenRemoved ==
    \A c \in Conns :
        /\ wpc[c] \in {"queued"} \cup InLoop => InRegistry(c) /\ removals[c] = 0
        /\ wpc[c] \in JobEnded => removals[c] = 1 /\ ~InRegistry(c)

\* C22: a stop() call that found the server running returns.  A necessary
\* condition, which a finite run refutes: the thread that made the call has
\* not died inside it.
C22_StopNotDead ==
    \A t \in Stoppers : spc[t] \notin {"idle", "noop"} => spc[t] \notin Panicked

\* C23: from the store of the flag to its return, a stop() call does not
\* hold the registry lock; while a call waits in join() and a job is at its
\* removal, the lock is free or held by another call's broadcast.
C23_NoLockInJoin ==
    \A t \in Stoppers :
        /\ spc[t] \in {"flip", "join", "end", "returned"} => lock # << t >>
        /\ (spc[t] = "join" /\ \E c \in Conns : wpc[c] = "remove")
              => \/ lock = Free
                 \/ \E u \in Stoppers \ {t} : lock = << u >> /\ spc[u] \in {"notify", "writing"}

C23_Witness ==
    \E t \in Stoppers : \E c \in Conns :
        /\ spc[t] = "join"
        /\ Received(c, ShutdownNote)
        /\ wpc[c] = "done" /\ removals[c] = 1
        /\ \E d \in Conns : wpc[d] = "remove"

\* C24: the step by which a job leaves its removal keeps the entries of
\* the other connections, in their order; and an entry leaves the registry
\* only by a step of the job of its own connection.
C24_RemovalFrame ==
    [][\A c \in Conns :
         /\ (wpc[c] = "remove" /\ wpc'[c] # "remove")
               => SelectSeq(active_clients', LAMBDA s : s # c)
                    = SelectSeq(active_clients, LAMBDA s : s # c)
         /\ (InRegistry(c) /\ ~InRegistry(c)')
               => wpc[c] = "remove" /\ wpc'[c] # "remove"]_vars

C24_Witness ==
    \E c, d \in Conns :
        /\ wpc[c] = "done" /\ removals[c] = 1 /\ ~InRegistry(c)
        /\ InRegistry(d) /\ wpc[d] \in InLoop
        /\ active_clients = << d >>
====
